---------------------------- MODULE Spec2Model ----------------------------
(***************************************************************************)
(* Model of the provider fallback and budget-rotation acquisition engine   *)
(* of bm-universe-eod: scripts/providers.py (AlphaBudget, the statement    *)
(* cache, alpha_statements, _alpha_get) and the universe loop of           *)
(* scripts/fetch_and_build.py (main).                                      *)
(*                                                                         *)
(* Time is counted in ticks, TicksPerDay ticks to a day.  A cache file is  *)
(* the sequence of chunks json.dump wrote to it; a symbol is the sequence  *)
(* of its characters.                                                      *)
(***************************************************************************)
EXTENDS Integers, Sequences, FiniteSets, TLC

(* ------------------------------ bounds -------------------------------- *)
MaxBudget == 3
MaxRunBudget == 2
MaxRefreshDays == 2
MaxClock == 2
MaxRuns == 2
MaxCalls == 4
MaxConsumes == 4
MaxAmount == 2
MaxOps == 2
MaxN == 5
MaxDailyBudget == 6
MaxStartDay == 7
MaxDays == 6
MaxDailyN == 3
MaxTickers == 3
MaxBatchSize == 2
MaxNullBudget == 1
MaxWorkerClock == 1
MaxFetchBudget == 1
MaxFetchClock == 1
MaxFetchLoad == 2
MaxSchedBudget == 3
MaxSchedN == 2
MaxOverrun == 1

(* ----------------------------- constants ------------------------------ *)
TicksPerDay == 2
EpochOrdinal == 10
CallsPerTicker == 3
Retries == 3

None == <<"None">>
NoFile == [exists |-> FALSE, text |-> <<>>]
File(text) == [exists |-> TRUE, text |-> text]
NoEntry == [tag |-> "None"]
JSONDecodeError == [tag |-> "JSONDecodeError"]
Entry(ts, payload) == [tag |-> "entry", ts |-> ts, payload |-> payload]
Unset == <<"Unset">>
EmptyDoc == <<"{}">>

Kinds == <<"income", "balance", "cashflow">>
KindSet == {Kinds[i] : i \in DOMAIN Kinds}

Tickers == << <<"A">>, <<"B">> >>
Alphabet == <<"A", "B", "C", "D", "E", "F", "G", "H">>
UniverseOf(n) == [i \in 1..n |-> <<Alphabet[i]>>]
CacheSymbols == { <<"A", "/", "B">>, <<"A", "_", "B">> }
Payloads == {<<"docA">>, <<"docB">>}
Functions == [income |-> "INCOME_STATEMENT", balance |-> "BALANCE_SHEET",
              cashflow |-> "CASH_FLOW"]

Max(a, b) == IF a >= b THEN a ELSE b
Min(a, b) == IF a <= b THEN a ELSE b

(* --------------------------- AlphaBudget ------------------------------ *)
AlphaBudgetInit(daily_limit) == daily_limit

Consume(r, n) == Max(0, r - n)

Remaining(r) == r

RECURSIVE SumSeq(_)
SumSeq(s) == IF s = <<>> THEN 0 ELSE Head(s) + SumSeq(Tail(s))

(* -------------------------- statement cache --------------------------- *)
ReplaceSlash(symbol) ==
    [i \in DOMAIN symbol |-> IF symbol[i] = "/" THEN "_" ELSE symbol[i]]

StmtCachePath(symbol, kind) == ReplaceSlash(symbol) \o <<"_", kind, ".json">>

Paths == {StmtCachePath(s, k) :
            s \in CacheSymbols \cup {Tickers[i] : i \in DOMAIN Tickers}
                    \cup {UniverseOf(MaxDailyN)[i] : i \in 1..MaxDailyN},
            k \in KindSet}

IsoFormat(t) == <<"iso", t>>
FromIsoFormat(s) == s[2]

JsonDump(ts, payload) == << <<"_ts", IsoFormat(ts)>>, <<"payload", payload>> >>

JsonLoad(text) ==
    IF Len(text) = 2 /\ text[1][1] = "_ts" /\ text[2][1] = "payload"
    THEN Entry(text[1][2], text[2][2])
    ELSE JSONDecodeError

Prefixes(text) == {SubSeq(text, 1, n) : n \in 0..(Len(text) - 1)}

LoadStmtCache(fs, symbol, kind) ==
    LET p == StmtCachePath(symbol, kind)
    IN  IF fs[p].exists THEN JsonLoad(fs[p].text) ELSE NoEntry

OpenForWrite(fs, symbol, kind) ==
    [fs EXCEPT ![StmtCachePath(symbol, kind)] = File(<<>>)]

DumpEntryDate(fs, symbol, kind, payload, writeTime) ==
    [fs EXCEPT ![StmtCachePath(symbol, kind)] =
        File(JsonDump((writeTime \div TicksPerDay) * TicksPerDay, payload))]
DumpEntry(fs, symbol, kind, payload, writeTime) ==
    [fs EXCEPT ![StmtCachePath(symbol, kind)] = File(JsonDump(writeTime, payload))]

(* ------------------------ staleness / refresh ------------------------- *)
Days(delta) == delta \div TicksPerDay

\* (now - ts).days for two instants known to the tick: a timestamp is
\* somewhere within its tick, so that an entry written a whole number of
\* days of ticks before now is that many days old, or one day less when
\* now is earlier within its tick than the timestamp is within its own.
\* Where a timestamp lies within its tick is not kept, and each reading of
\* an entry takes either age.
AgesInDays(ts, t) ==
    IF t - ts > 0 /\ (t - ts) % TicksPerDay = 0
    THEN {Days(t - ts) - 1, Days(t - ts)}
    ELSE {Days(t - ts)}

\* No age is computed for an absent entry.
NoAge == Unset
Ages(cached, t) ==
    IF cached = NoEntry THEN {NoAge}
    ELSE AgesInDays(FromIsoFormat(cached.ts), t)

FreshLe(age, refresh_days) == age <= refresh_days
Fresh(age, refresh_days) == age < refresh_days

FallbackNull(cached) == None
Fallback(cached) == IF cached # NoEntry THEN cached.payload ELSE None

NeedNullAsAbsent(cached, refresh, age, refresh_days) ==
    ~ (cached # NoEntry /\ cached.payload # None /\ ~refresh
       /\ Fresh(age, refresh_days))
NeedIgnoringRefresh(cached, refresh, age, refresh_days) ==
    ~ (cached # NoEntry /\ Fresh(age, refresh_days))
Need(cached, refresh, age, refresh_days) ==
    ~ (cached # NoEntry /\ ~refresh /\ Fresh(age, refresh_days))

\* The age line 317 computed, when it is reached.
AgeSeen(cached, refresh, age) ==
    IF cached # NoEntry /\ ~refresh THEN age ELSE NoAge


(* ----------------------------- rotation ------------------------------- *)
WeekendSkip == TRUE

Ordinal(t) == EpochOrdinal + (t \div TicksPerDay)

IsWeekend(ord) == ((ord - 1) % 7) >= 5

TpdNoMinimum(daily_budget) == daily_budget \div CallsPerTicker
Tpd(daily_budget) == Max(1, daily_budget \div CallsPerTicker)

RotationStart(ord, tpd, n) == (ord * tpd) % Max(1, n)

ToRefresh(tickers, ord, daily_budget) ==
    LET n == Len(tickers)
        tpd == Tpd(daily_budget)
        start == RotationStart(ord, tpd, n)
    IN  [i \in 1..Min(tpd, n) |-> tickers[((start + (i - 1)) % n) + 1]]

Range(s) == {s[i] : i \in DOMAIN s}

(* ------------------------------- state -------------------------------- *)
VARIABLES
    files,          \* storage key -> NoFile, or the chunks written to the file
    clock,          \* wall clock, in ticks
    limit,          \* daily_limit / ALPHA_DAILY_BUDGET
    remain,         \* AlphaBudget._remain
    consumed,       \* the amounts passed to consume, in call order
    refresh_days,   \* ALPHA_REFRESH_DAYS
    alphaKey,       \* whether ALPHA_KEY is set
    weekendSkip,    \* whether WEEKEND_SKIP is "true"
    runs,           \* runs of main started so far
    today,          \* d = today_jst() of the current run, as a date ordinal
    pc,             \* position of the running process
    idx,            \* index in the universe of the ticker being processed
    kidx,           \* index in Kinds of the statement kind being processed
    toRefresh,      \* to_refresh of the current run
    refresh,        \* the refresh argument of the current alpha_statements call
    now,            \* the now captured at the start of alpha_statements
    out,            \* the out dict of the current alpha_statements call
    js,             \* the response of the last successful _alpha_get
    saveCall,       \* the _save_stmt_cache call in progress or last made
    stmtReqs,       \* statement requests sent to the provider in this run
    callsToday,     \* statement calls of the current day that a ledger counted
    ev,             \* what the last step of the process did
    written,        \* (symbol, kind) -> payload of the last completed save
    ops,            \* _save_stmt_cache calls made by the cache's client so far
    universe,       \* the Ticker column of the universe file, in file order
    windows,        \* the rotation windows of the days computed so far
    live,           \* (symbol, kind) pairs fetched live in the last run
    tiingoKey,      \* whether TIINGO_KEY is set
    call,           \* the last call made to an adapter or a cascade
    result,         \* what that call returned or raised, and what it invoked
    rows,           \* main's rows
    missing,        \* main's missing list
    cur,            \* main's locals for the ticker being processed
    workers,        \* worker -> its position in alpha_statements and its locals
    alphaLog        \* Alpha Vantage requests and pacing sleeps of the run, in order

vars == <<files, clock, limit, remain, consumed, refresh_days, alphaKey,
          weekendSkip, runs, today,
          pc, idx, kidx, toRefresh, refresh, now, out, js, saveCall, stmtReqs,
          callsToday, ev, written, ops, universe, windows, live, tiingoKey,
          call, result, rows, missing, cur, workers,
          alphaLog>>

budgetVars == <<limit, remain, consumed>>
configVars == <<refresh_days, alphaKey, weekendSkip>>
runVars == <<runs, today, idx, kidx, toRefresh, refresh, now, out, js, stmtReqs>>
cacheVars == <<written, ops>>
clientVars == <<universe, windows, tiingoKey, call, result, rows, missing, cur,
               workers>>
auxVars == <<universe, windows, live, tiingoKey, call, result, rows, missing, cur, workers,
            alphaLog>>

NoEvent == [op |-> "none", cached |-> NoEntry, remainPre |-> 0, age |-> NoAge]
NoCall == [symbol |-> <<>>, kind |-> "none", payload |-> None, t0 |-> 0]
EmptyOut == [k \in KindSet |-> Unset]

Symbol == universe[idx]
Kind == Kinds[kidx]

NoWorkers == <<>>
NoApiCall == [fn |-> "none"]
NoResult == [fn |-> "none"]
NoCur == [usdjpy |-> <<"None">>, close |-> <<"None">>, pe |-> <<"None">>,
          ps |-> <<"None">>, dy |-> <<"None">>, nxt |-> <<"None">>]

AuxIdle ==
    /\ universe = Tickers
    /\ windows = <<>>
    /\ live = {}
    /\ tiingoKey = TRUE
    /\ workers = NoWorkers
    /\ alphaLog = <<>>
    /\ call = NoApiCall
    /\ result = NoResult
    /\ rows = <<>>
    /\ missing = <<>>
    /\ cur = NoCur

(* ------------------------------ the run ------------------------------- *)
InitCommon ==
    /\ AuxIdle
    /\ files = [p \in Paths |-> NoFile]
    /\ clock = 0
    /\ consumed = <<>>
    /\ runs = 0
    /\ today = 0
    /\ idx = 1
    /\ kidx = 1
    /\ toRefresh = <<>>
    /\ refresh = FALSE
    /\ now = 0
    /\ out = EmptyOut
    /\ js = None
    /\ saveCall = NoCall
    /\ stmtReqs = 0
    /\ callsToday = 0
    /\ ev = NoEvent
    /\ ops = 0

Init ==
    /\ InitCommon
    /\ limit \in 0..MaxRunBudget
    /\ remain = 0
    /\ refresh_days \in 1..MaxRefreshDays
    /\ weekendSkip = WeekendSkip
    /\ alphaKey \in BOOLEAN
    /\ written = <<>>
    /\ pc = "idle"

\* main is started.  Every run has its own ledger: a further run is taken
\* while the ledgers of the behaviour grant no more than MaxCalls calls.
StartRun ==
    /\ pc = "idle"
    /\ runs < MaxRuns
    /\ runs = 0 \/ (runs + 1) * limit <= MaxCalls
    /\ runs' = runs + 1
    /\ IF weekendSkip /\ IsWeekend(Ordinal(clock))
       THEN /\ pc' = "idle"
            /\ UNCHANGED <<today, remain, toRefresh, idx, stmtReqs, ev>>
       ELSE /\ today' = Ordinal(clock)
            /\ remain' = AlphaBudgetInit(limit)
            /\ toRefresh' = ToRefresh(universe, Ordinal(clock), limit)
            /\ idx' = 1
            /\ stmtReqs' = 0
            /\ ev' = NoEvent
            /\ pc' = IF Len(universe) = 0 THEN "idle" ELSE "core"
    /\ UNCHANGED <<files, clock, limit, consumed, configVars, auxVars, kidx, refresh,
                   now, out, js, saveCall, callsToday, cacheVars>>

\* The process ends: its ledger and its locals are gone.
ProcessExit ==
    /\ pc' = "idle"
    /\ remain' = 0
    /\ idx' = 1
    /\ kidx' = 1
    /\ toRefresh' = <<>>
    /\ refresh' = FALSE
    /\ now' = 0
    /\ out' = EmptyOut
    /\ js' = None
    /\ saveCall' = NoCall
    /\ stmtReqs' = 0
    /\ today' = 0
    /\ live' = {}
    /\ alphaLog' = <<>>

\* Prices and the core fundamentals of the ticker touch neither the ledger
\* nor the cache; alpha_overview sends its request when the key is set
\* (OVERVIEW is not counted in the budget).  Then alpha_statements is
\* entered.
CoreDone ==
    /\ pc = "core"
    /\ refresh' = (Symbol \in Range(toRefresh))
    /\ now' = clock
    /\ out' = EmptyOut
    /\ kidx' = 1
    /\ pc' = "kind"
    /\ ev' = NoEvent
    /\ alphaLog' = IF alphaKey THEN Append(alphaLog, "call") ELSE alphaLog
    /\ UNCHANGED <<files, clock, budgetVars, configVars, clientVars, live, runs,
                   today, idx, toRefresh, js, saveCall, stmtReqs, callsToday,
                   cacheVars>>

\* The price block catches RateLimit only and next_event_yfinance is called
\* unguarded: what they let through ends main.
CoreRaises ==
    /\ pc = "core"
    /\ ProcessExit
    /\ ev' = [NoEvent EXCEPT !.op = "aborted"]
    /\ UNCHANGED <<files, clock, limit, consumed, configVars, clientVars, runs,
                   callsToday, cacheVars>>

TickerCore == CoreDone \/ CoreRaises

StmtKind ==
    /\ pc = "kind"
    /\ kidx <= Len(Kinds)
    /\ LET cached == LoadStmtCache(files, Symbol, Kind)
       IN  IF cached = JSONDecodeError
           THEN /\ pc' = "except"
                /\ ev' = [op |-> "JSONDecodeError", cached |-> cached,
                          remainPre |-> remain, age |-> NoAge]
                /\ UNCHANGED <<out, kidx>>
           ELSE \E age \in Ages(cached, now) :
                LET seen == AgeSeen(cached, refresh, age)
                IN  IF Need(cached, refresh, age, refresh_days)
                    THEN IF Remaining(remain) <= 0
                         THEN /\ out' = [out EXCEPT ![Kind] = Fallback(cached)]
                              /\ kidx' = kidx + 1
                              /\ pc' = "kind"
                              /\ ev' = [op |-> "fallback", cached |-> cached,
                                        remainPre |-> remain, age |-> seen]
                         ELSE /\ pc' = "fetch"
                              /\ ev' = [op |-> "need", cached |-> cached,
                                        remainPre |-> remain, age |-> seen]
                              /\ UNCHANGED <<out, kidx>>
                    ELSE /\ out' = [out EXCEPT ![Kind] = cached.payload]
                         /\ kidx' = kidx + 1
                         /\ pc' = "kind"
                         /\ ev' = [op |-> "cached", cached |-> cached,
                                   remainPre |-> remain, age |-> seen]
    /\ UNCHANGED <<files, clock, budgetVars, configVars, auxVars, runs, today,
                   idx, toRefresh, refresh, now, js, saveCall, stmtReqs,
                   callsToday, cacheVars>>

\* What _alpha_get raises: RateLimit; Timeout, for whatever requests.get
\* raises when no answer arrives (a ConnectionError alike); HTTPError from
\* raise_for_status; the ValueError of r.json() on an answer that is not
\* JSON.
Failures == {"RateLimit", "Timeout", "HTTPError", "ValueError"}

ProviderDoc(function, symbol, t) == <<function, symbol, t>>
Responses(function, symbol, t) == {ProviderDoc(function, symbol, t)}

\* _alpha_get raises: without a key before any request, else in
\* requests.get or on the provider's answer.
AlphaGetRaisesConsuming ==
    /\ pc = "fetch"
    /\ pc' = "except"
    /\ IF ~alphaKey
       THEN /\ ev' = [ev EXCEPT !.op = "RateLimit"]
            /\ UNCHANGED <<stmtReqs, alphaLog, remain>>
       ELSE /\ stmtReqs' = stmtReqs + 1
            /\ alphaLog' = Append(alphaLog, "call")
            /\ remain' = Consume(remain, 1)
            /\ \E f \in Failures : ev' = [ev EXCEPT !.op = f]
    /\ UNCHANGED <<files, clock, limit, consumed, configVars, clientVars, live,
                   runs, today, idx, kidx, toRefresh, refresh, now, out, js,
                   saveCall, callsToday, cacheVars>>
AlphaGetRaises ==
    /\ pc = "fetch"
    /\ pc' = "except"
    /\ IF ~alphaKey
       THEN /\ ev' = [ev EXCEPT !.op = "RateLimit"]
            /\ UNCHANGED <<stmtReqs, alphaLog>>
       ELSE /\ stmtReqs' = stmtReqs + 1
            /\ alphaLog' = Append(alphaLog, "call")
            /\ \E f \in Failures : ev' = [ev EXCEPT !.op = f]
    /\ UNCHANGED <<files, clock, budgetVars, configVars, clientVars, live, runs,
                   today, idx, kidx, toRefresh, refresh, now, out, js,
                   saveCall, callsToday, cacheVars>>

\* _alpha_get returns the document the provider answered.
AlphaGetDocument(payload) ==
    /\ pc = "fetch"
    /\ alphaKey
    /\ stmtReqs' = stmtReqs + 1
    /\ alphaLog' = Append(alphaLog, "call")
    /\ js' = payload
    /\ pc' = "save"
    /\ ev' = [ev EXCEPT !.op = "fetched"]
    /\ UNCHANGED <<files, clock, budgetVars, configVars, clientVars, live, runs,
                   today, idx, kidx, toRefresh, refresh, now, out, saveCall,
                   callsToday, cacheVars>>

\* The provider answers the statements of the symbol.
AlphaGetReturns ==
    /\ pc = "fetch"
    /\ \E payload \in Responses(Functions[Kind], Symbol, clock) :
          AlphaGetDocument(payload)

\* The provider answers a document without reports.
AlphaGetEmpty == AlphaGetDocument(EmptyDoc)

\* The provider answers the JSON document null: r.json() is None, which
\* alpha_statements saves and returns like any other document.
AlphaGetNull == AlphaGetDocument(None)

\* _alpha_get raises, or returns r.json() of whatever the provider sent.
AlphaGet ==
    \/ AlphaGetRaises
    \/ AlphaGetReturns
    \/ AlphaGetEmpty
    \/ AlphaGetNull

SaveOpen ==
    /\ pc = "save"
    /\ saveCall' = [symbol |-> Symbol, kind |-> Kind, payload |-> js, t0 |-> clock]
    /\ files' = OpenForWrite(files, Symbol, Kind)
    /\ pc' = "dump"
    /\ UNCHANGED <<clock, budgetVars, configVars, auxVars, runVars, callsToday, ev, cacheVars>>

SaveDump ==
    /\ pc = "dump"
    /\ files' = DumpEntry(files, saveCall.symbol, saveCall.kind, saveCall.payload,
                          clock)
    /\ pc' = "consume"
    /\ ev' = [ev EXCEPT !.op = "saved"]
    /\ UNCHANGED <<clock, budgetVars, configVars, auxVars, runVars, saveCall, callsToday,
                   cacheVars>>

CrashInSave ==
    /\ pc = "dump"
    /\ \E text \in Prefixes(JsonDump(clock, saveCall.payload)) :
          files' = [files EXCEPT ![StmtCachePath(saveCall.symbol, saveCall.kind)] = File(text)]
    /\ ProcessExit
    /\ ev' = [NoEvent EXCEPT !.op = "crash"]
    /\ UNCHANGED <<clock, limit, consumed, configVars, clientVars, runs, callsToday,
                   cacheVars>>

\* budget.consume(1), out[kind] = js and the pacing sleep.
ConsumeSleep ==
    /\ pc = "consume"
    /\ remain' = Consume(remain, 1)
    /\ callsToday' = callsToday + 1
    /\ out' = [out EXCEPT ![Kind] = js]
    /\ kidx' = kidx + 1
    /\ pc' = "kind"
    /\ ev' = [ev EXCEPT !.op = "consumed"]
    /\ live' = live \cup {<<Symbol, Kind>>}
    /\ alphaLog' = Append(alphaLog, "sleep")
    /\ UNCHANGED <<files, clock, limit, consumed, configVars, clientVars, runs,
                   today, idx, toRefresh, refresh, now, js, saveCall, stmtReqs,
                   cacheVars>>

FinishTicker ==
    /\ \/ pc = "kind" /\ kidx > Len(Kinds)
       \/ pc = "except"
    /\ IF idx < Len(universe)
       THEN /\ idx' = idx + 1
            /\ pc' = "core"
            /\ ev' = [ev EXCEPT !.op = IF pc = "except" THEN "missing" ELSE "row"]
            /\ UNCHANGED <<remain, kidx, toRefresh, refresh, now, out, js,
                           saveCall, stmtReqs, today, live, alphaLog>>
       ELSE /\ ProcessExit
            /\ ev' = [NoEvent EXCEPT !.op = "done"]
    /\ UNCHANGED <<files, clock, limit, consumed, configVars, clientVars, runs,
                   callsToday, cacheVars>>

\* Where a run of main waits: for the providers of the core block, between
\* two statement kinds (the pacing sleep of the kind before included), and
\* for the answer to a statement request; with the price block and the core
\* block taken apart, in either of them.
WaitPcs == {"core", "kind", "fetch"}
MainWaitPcs == WaitPcs \cup {"mprice", "mcore"}

\* The clock advances between runs, while a run waits, and at any point of a
\* cache client's save.
Tick ==
    /\ pc \in {"idle", "cache", "cdump"} \cup WaitPcs
    /\ clock < MaxClock
    /\ clock' = clock + 1
    /\ callsToday' = IF Ordinal(clock + 1) # Ordinal(clock) THEN 0 ELSE callsToday
    /\ UNCHANGED <<files, budgetVars, configVars, auxVars, runs, today, idx,
                   kidx, toRefresh, refresh, now, out, js, stmtReqs, pc,
                   saveCall, ev, cacheVars>>

Next ==
    \/ StartRun
    \/ TickerCore
    \/ StmtKind
    \/ AlphaGet
    \/ SaveOpen
    \/ SaveDump
    \/ CrashInSave
    \/ ConsumeSleep
    \/ FinishTicker
    \/ Tick

Spec == Init /\ [][Next]_vars

(* ------------------ runs in which no process is killed --------------- *)
\* The steps of Spec but the kill in a save.
NullNext ==
    \/ StartRun
    \/ TickerCore
    \/ StmtKind
    \/ AlphaGet
    \/ SaveOpen
    \/ SaveDump
    \/ ConsumeSleep
    \/ FinishTicker
    \/ Tick

NullInit ==
    /\ InitCommon
    /\ limit \in 1..MaxNullBudget
    /\ remain = 0
    /\ refresh_days = 1
    /\ weekendSkip = WeekendSkip
    /\ alphaKey = TRUE
    /\ written = <<>>
    /\ pc = "idle"

NullSpec == NullInit /\ [][NullNext]_vars

(* ----------------------- AlphaBudget on its own ----------------------- *)
\* int(daily_limit) is kept as it is, whatever its sign.
BudgetInit ==
    /\ InitCommon
    /\ limit \in (0 - MaxBudget)..MaxBudget
    /\ remain = AlphaBudgetInit(limit)
    /\ refresh_days = 1
    /\ weekendSkip = WeekendSkip
    /\ alphaKey = TRUE
    /\ written = <<>>
    /\ pc = "budget"

BudgetConsume(n) ==
    /\ pc = "budget"
    /\ Len(consumed) < MaxConsumes
    /\ remain' = Consume(remain, n)
    /\ consumed' = Append(consumed, n)
    /\ UNCHANGED <<files, clock, limit, configVars, auxVars, runVars, pc, saveCall,
                   callsToday, ev, cacheVars>>

\* consume takes any integer.
BudgetNext == \E n \in (0 - MaxAmount)..MaxAmount : BudgetConsume(n)

BudgetSpec == BudgetInit /\ [][BudgetNext]_vars

(* -------------------- the statement cache on its own ------------------ *)
Pairs == CacheSymbols \X KindSet

CacheInit ==
    /\ InitCommon
    /\ limit = 0
    /\ remain = 0
    /\ refresh_days = 1
    /\ weekendSkip = WeekendSkip
    /\ alphaKey = TRUE
    /\ written = [pr \in Pairs |-> None]
    /\ pc = "cache"

CacheSaveOpen(symbol, kind, payload) ==
    /\ pc = "cache"
    /\ ops < MaxOps
    /\ ops' = ops + 1
    /\ saveCall' = [symbol |-> symbol, kind |-> kind, payload |-> payload, t0 |-> clock]
    /\ files' = OpenForWrite(files, symbol, kind)
    /\ pc' = "cdump"
    /\ ev' = [NoEvent EXCEPT !.op = "open"]
    /\ UNCHANGED <<clock, budgetVars, configVars, auxVars, runVars, callsToday, written>>

CacheSaveDump ==
    /\ pc = "cdump"
    /\ files' = DumpEntry(files, saveCall.symbol, saveCall.kind, saveCall.payload,
                          clock)
    /\ written' = [written EXCEPT ![<<saveCall.symbol, saveCall.kind>>] = saveCall.payload]
    /\ pc' = "cache"
    /\ ev' = [NoEvent EXCEPT !.op = "saved"]
    /\ UNCHANGED <<clock, budgetVars, configVars, auxVars, runVars, saveCall, callsToday, ops>>

CacheLoad(symbol, kind) ==
    /\ pc = "cache"
    /\ ev' = [op |-> IF /\ ev.op = "saved"
                        /\ saveCall.symbol = symbol
                        /\ saveCall.kind = kind
                     THEN "loadAfterSave" ELSE "load",
              cached |-> LoadStmtCache(files, symbol, kind),
              remainPre |-> 0, age |-> NoAge]
    /\ UNCHANGED <<files, clock, budgetVars, configVars, auxVars, runVars, pc, saveCall,
                   callsToday, cacheVars>>

CacheNext ==
    \/ \E symbol \in CacheSymbols, kind \in KindSet, payload \in Payloads :
          CacheSaveOpen(symbol, kind, payload)
    \/ CacheSaveDump
    \/ \E symbol \in CacheSymbols, kind \in KindSet : CacheLoad(symbol, kind)
    \/ Tick

CacheSpec == CacheInit /\ [][CacheNext]_vars

\* The variables of a run of main, at rest.
RunIdle ==
    /\ runs = 0
    /\ today = 0
    /\ idx = 1
    /\ kidx = 1
    /\ refresh = FALSE
    /\ now = 0
    /\ out = EmptyOut
    /\ js = None
    /\ saveCall = NoCall
    /\ stmtReqs = 0
    /\ callsToday = 0
    /\ ev = NoEvent
    /\ consumed = <<>>
    /\ written = <<>>
    /\ ops = 0

(* ------------------- adapters and handlers as functions --------------- *)
\* What a provider answers to one request: data, an answer without data, a
\* throttling status, Alpha Vantage's throttling note, an HTTP error status,
\* or nothing before the timeout.
Resps == {"ok", "empty", "429", "note", "error", "timeout"}

Return(v) == [raised |-> "none", value |-> v]
Raise(e) == [raised |-> e, value |-> None]

AlphaGetResult(key, resp, function, symbol, t) ==
    IF ~key THEN [out |-> Raise("RateLimit"), reqs |-> 0]
    ELSE [out |-> CASE resp = "timeout" -> Raise("Timeout")
                    [] resp \in {"429", "note"} -> Raise("RateLimit")
                    [] resp = "error" -> Raise("HTTPError")
                    [] resp = "empty" -> Return(EmptyDoc)
                    [] OTHER -> Return(ProviderDoc(function, symbol, t)),
          reqs |-> 1]

\* F applied to the value of x.
With(x, F(_)) == CHOOSE y \in {F(v) : v \in {x}} : TRUE

(* -------- main once per calendar day, every provider call answered ----- *)
\* The calendar repeats: the weekday of a date and its rotation start
\* depend on the ordinal only modulo 7 and modulo n.
Period(n) == 7 * Max(1, n)

\* The cache files as the next run reads them.  No run writes a timestamp
\* it has not taken from its own clock, and alpha_statements reads one only
\* through (now - ts).days < refresh_days.  An entry that is at most
\* refresh_days days of ticks and one tick old keeps its timestamp; an
\* older one, stale at whatever time within the tick it was written and
\* for every run to come, is kept as exactly that old, the time of fetch
\* in its payload with it.  When the calendar wraps, every timestamp moves
\* back by the period with the clock.
Rebase(fs, shift, t, rdays) ==
    [p \in DOMAIN fs |->
        IF fs[p].exists
        THEN LET e == JsonLoad(fs[p].text)
                 ts == Max(FromIsoFormat(e.ts) - shift,
                           t - rdays * TicksPerDay - 1)
             IN  File(JsonDump(ts, IF Len(e.payload) = 3
                                   THEN <<e.payload[1], e.payload[2], ts>>
                                   ELSE e.payload))
        ELSE fs[p]]

DailyInit ==
    /\ RunIdle
    /\ files = [p \in Paths |-> NoFile]
    /\ universe \in {UniverseOf(n) : n \in 1..MaxSchedN}
    /\ limit \in CallsPerTicker..MaxSchedBudget
    /\ refresh_days \in 1..MaxRefreshDays
    /\ weekendSkip = WeekendSkip
    /\ clock \in 0..(TicksPerDay - 1)
    /\ remain = 0
    /\ alphaKey = TRUE
    /\ toRefresh = <<>>
    /\ windows = <<>>
    /\ live = {}
    /\ tiingoKey = TRUE
    /\ workers = NoWorkers
    /\ alphaLog = <<>>
    /\ call = NoApiCall
    /\ result = NoResult
    /\ rows = <<>>
    /\ missing = <<>>
    /\ cur = NoCur
    /\ pc = "daily"

\* The schedule starts main: lines 11-36, up to the universe loop.
DailyStart ==
    /\ pc = "daily"
    /\ today' = Ordinal(clock)
    /\ IF weekendSkip /\ IsWeekend(Ordinal(clock))
       THEN /\ pc' = "ran"
            /\ UNCHANGED <<remain, toRefresh, idx>>
       ELSE /\ remain' = AlphaBudgetInit(limit)
            /\ toRefresh' = ToRefresh(universe, Ordinal(clock), limit)
            /\ idx' = 1
            /\ pc' = IF Len(universe) = 0 THEN "ran" ELSE "core"
    /\ UNCHANGED <<files, clock, limit, consumed, configVars, auxVars, runs,
                   kidx, refresh, now, out, js, saveCall, stmtReqs,
                   callsToday, ev, cacheVars>>

\* Time passes while the run waits, up to MaxOverrun ticks past the
\* midnight after the start of the run.
DailyTick ==
    /\ pc \in WaitPcs
    /\ clock + 1 < (today + 1 - EpochOrdinal) * TicksPerDay + MaxOverrun
    /\ clock' = clock + 1
    /\ callsToday' = IF Ordinal(clock + 1) # Ordinal(clock) THEN 0 ELSE callsToday
    /\ UNCHANGED <<files, budgetVars, configVars, auxVars, runVars, pc,
                   saveCall, ev, cacheVars>>

\* The row of the ticker is appended; the loop goes on or main returns.
DailyFinishTicker ==
    /\ \/ pc = "kind" /\ kidx > Len(Kinds)
       \/ pc = "except"
    /\ IF idx < Len(universe)
       THEN idx' = idx + 1 /\ pc' = "core"
       ELSE idx' = idx /\ pc' = "ran"
    /\ ev' = [ev EXCEPT !.op = IF pc = "except" THEN "missing" ELSE "row"]
    /\ UNCHANGED <<files, clock, budgetVars, configVars, auxVars, runs, today,
                   kidx, toRefresh, refresh, now, out, js, saveCall, stmtReqs,
                   callsToday, cacheVars>>

\* The process of today's run is gone; the schedule starts the next run
\* on the day after the one this run started on, at the given time of day.
\* The calls counted for that day are those the run made after midnight.
DayEnd(timeOfDay) ==
    /\ pc = "ran"
    /\ LET day == today - EpochOrdinal
           wrap == day + 1 = Period(Len(universe))
           shift == IF wrap THEN Period(Len(universe)) * TicksPerDay ELSE 0
           t1 == (day + 1) * TicksPerDay + timeOfDay
       IN  /\ t1 >= clock
           /\ clock' = t1 - shift
           /\ files' = Rebase(files, shift, t1 - shift, refresh_days)
    /\ today' = 0
    /\ pc' = "daily"
    /\ remain' = 0
    /\ idx' = 1
    /\ kidx' = 1
    /\ toRefresh' = <<>>
    /\ refresh' = FALSE
    /\ now' = 0
    /\ out' = EmptyOut
    /\ js' = None
    /\ saveCall' = NoCall
    /\ stmtReqs' = 0
    /\ live' = {}
    /\ alphaLog' = <<>>
    /\ callsToday' = IF Ordinal(clock) = today + 1 THEN callsToday ELSE 0
    /\ ev' = NoEvent
    /\ UNCHANGED <<limit, consumed, configVars, clientVars, runs, cacheVars>>

DailyNext ==
    \/ DailyStart
    \/ DailyTick
    \/ CoreDone
    \/ StmtKind
    \/ AlphaGetReturns
    \/ SaveOpen
    \/ SaveDump
    \/ ConsumeSleep
    \/ DailyFinishTicker
    \/ \E timeOfDay \in 0..(TicksPerDay - 1) : DayEnd(timeOfDay)

\* The schedule starts main every calendar day, and a started process runs
\* to its end.
DailySpec == DailyInit /\ [][DailyNext]_vars /\ WF_vars(DailyNext)

(* ------------------------ price and FX adapters ----------------------- *)
Quote(provider) == <<"quote", provider>>

\* Tiingo, Stooq and exchangerate.host have no throttling note.
PlainResps == Resps \ {"note"}

PriceTiingoKeyUnchecked(key, resp) ==
    [out |-> CASE resp = "timeout" -> Raise("Timeout")
               [] resp = "429" -> Raise("RateLimit")
               [] resp = "error" -> Raise("HTTPError")
               [] resp = "empty" -> Return(None)
               [] OTHER -> Return(Quote("tiingo")),
     reqs |-> 1, sleeps |-> 0]
PriceTiingo(key, resp) ==
    IF ~key THEN [out |-> Raise("RateLimit"), reqs |-> 0, sleeps |-> 0]
    ELSE [out |-> CASE resp = "timeout" -> Raise("Timeout")
                    [] resp = "429" -> Raise("RateLimit")
                    [] resp = "error" -> Raise("HTTPError")
                    [] resp = "empty" -> Return(None)
                    [] OTHER -> Return(Quote("tiingo")),
          reqs |-> 1, sleeps |-> 0]

\* The attempts of price_alpha_global_quote and fx_usdjpy_alpha from the
\* given one on: resps[attempt + 1] answers the request of that attempt.
RECURSIVE AlphaAttempts(_, _, _, _)
AlphaAttempts(attempt, resps, retries, provider) ==
    IF attempt >= retries
    THEN [out |-> Return(None), reqs |-> 0, sleeps |-> 0]
    ELSE With(resps[attempt + 1], LAMBDA resp :
           IF resp = "timeout"
           THEN [out |-> Raise("Timeout"), reqs |-> 1, sleeps |-> 0]
           ELSE IF resp \in {"429", "note"}
           THEN [out |-> Raise("RateLimit"), reqs |-> 1, sleeps |-> 0]
           ELSE IF resp = "ok"
           THEN [out |-> Return(Quote(provider)), reqs |-> 1, sleeps |-> 0]
           ELSE With(AlphaAttempts(attempt + 1, resps, retries, provider),
                     LAMBDA r : [out |-> r.out, reqs |-> r.reqs + 1,
                                 sleeps |-> r.sleeps + 1]))

PriceAlphaGlobalQuote(key, resps) ==
    IF ~key THEN [out |-> Raise("RateLimit"), reqs |-> 0, sleeps |-> 0]
    ELSE AlphaAttempts(0, resps, Retries, "alpha")

PriceStooq(resp) ==
    [out |-> IF resp = "ok" THEN Return(Quote("stooq")) ELSE Return(None),
     reqs |-> 1, sleeps |-> 0]

FxUsdjpyAlpha(key, resps) ==
    IF ~key THEN [out |-> Raise("RateLimit"), reqs |-> 0, sleeps |-> 0]
    ELSE AlphaAttempts(0, resps, Retries, "alpha")

FxUsdjpyExrateHost(resp) ==
    [out |-> IF resp = "ok" THEN Return(Quote("exrate_host")) ELSE Return(None),
     reqs |-> 1, sleeps |-> 0]

\* price_yfinance is imported by fetch_and_build.py and defined nowhere in
\* the sources: an adapter that returns a price or None.
YfResps == {"ok", "empty"}
PriceYfinance(resp) ==
    [out |-> IF resp = "ok" THEN Return(Quote("yfinance")) ELSE Return(None),
     reqs |-> 1, sleeps |-> 0]

(* ------------------------------ cascades ------------------------------ *)
\* A cascade's result: what it returned or raised, the adapters it invoked
\* in call order, and the requests sent.
Cascade(o, invoked, reqs) == [out |-> o, invoked |-> invoked, reqs |-> reqs]

\* fill_missing_prices on the dict {t: price}.
FillMissingPricesNoStop(price, tKey, aKey, r1, r2, r3) ==
    With(PriceTiingo(tKey, r1), LAMBDA a1 :
      With(PriceAlphaGlobalQuote(aKey, r2), LAMBDA a2 :
        With(PriceStooq(r3), LAMBDA a3 :
          Cascade(IF price # None THEN Return(price)
                  ELSE IF a1.out.raised = "none" /\ a1.out.value # None
                  THEN a1.out
                  ELSE IF a2.out.raised = "none" /\ a2.out.value # None
                  THEN a2.out
                  ELSE a3.out,
                  <<"price_tiingo", "price_alpha_global_quote", "price_stooq">>,
                  a1.reqs + a2.reqs + a3.reqs))))
FillMissingPrices(price, tKey, aKey, r1, r2, r3) ==
    IF price # None THEN Cascade(Return(price), <<>>, 0)
    ELSE With(PriceTiingo(tKey, r1), LAMBDA a1 :
      IF a1.out.raised = "none" /\ a1.out.value # None
      THEN Cascade(a1.out, <<"price_tiingo">>, a1.reqs)
      ELSE With(PriceAlphaGlobalQuote(aKey, r2), LAMBDA a2 :
        IF a2.out.raised = "none" /\ a2.out.value # None
        THEN Cascade(a2.out, <<"price_tiingo", "price_alpha_global_quote">>,
                     a1.reqs + a2.reqs)
        ELSE With(PriceStooq(r3), LAMBDA a3 :
               Cascade(a3.out, <<"price_tiingo", "price_alpha_global_quote",
                                 "price_stooq">>,
                       a1.reqs + a2.reqs + a3.reqs))))

UsdJpyRate(aKey, r1, r2) ==
    With(FxUsdjpyAlpha(aKey, r1), LAMBDA a1 :
      IF a1.out.raised = "none" /\ a1.out.value # None
      THEN Cascade(a1.out, <<"fx_usdjpy_alpha">>, a1.reqs)
      ELSE With(FxUsdjpyExrateHost(r2), LAMBDA a2 :
             Cascade(a2.out, <<"fx_usdjpy_alpha", "fx_usdjpy_exrate_host">>,
                     a1.reqs + a2.reqs)))

\* The price block of main for one ticker: only RateLimit is caught.
MainPriceBlock(tKey, r1, y1, y2) ==
    With(PriceTiingo(tKey, r1), LAMBDA a1 :
      IF a1.out.raised \notin {"none", "RateLimit"}
      THEN Cascade(a1.out, <<"price_tiingo">>, a1.reqs)
      ELSE With(IF a1.out.raised = "RateLimit"
                THEN Cascade(PriceYfinance(y1).out,
                             <<"price_tiingo", "price_yfinance">>, a1.reqs + 1)
                ELSE Cascade(a1.out, <<"price_tiingo">>, a1.reqs),
                LAMBDA c :
             IF c.out.value = None
             THEN Cascade(PriceYfinance(y2).out,
                          Append(c.invoked, "price_yfinance"), c.reqs + 1)
             ELSE c))

(* ------------- adapters, cascades and main called by a client --------- *)
RespSeqs == [1..Retries -> Resps]

\* usd_jpy_yfinance and next_event_yfinance are imported by
\* fetch_and_build.py and defined nowhere in the sources: each returns a
\* value or None.
UsdJpyYfinance(resp) == IF resp = "ok" THEN Quote("yfinance") ELSE None
NextEventYfinance(resp) == IF resp = "ok" THEN <<"event">> ELSE None

\* The strings "None" and "", as a provider's document may hold them.
StrNone == <<"str", "None">>
StrEmpty == <<"str", "">>
Num == <<"value">>

\* fmt: "N/A" for None, str(x) for a string, the digits of a number.
NA == <<"N/A">>
Fmt(x) ==
    CASE x = None -> NA
      [] x \in {StrNone, StrEmpty} -> x
      [] OTHER -> <<"value">>

\* The columns main checks for the missing list, and the extended columns
\* kept here, one per statement kind (Revenue YoY% from income, Equity
\* Ratio% from balance, CFO/NI from cashflow and income); the columns main
\* sets to "N/A" unconditionally are left out.
CoreChecked ==
    <<"Close", "USD/JPY", "P/E(TTM)", "P/S(TTM)", "Div. Yield%", "Next Event">>
CoreCols == Range(CoreChecked) \cup {"Price (JPY)"}
ExtCols == {"Revenue YoY%", "Equity Ratio%", "CFO/NI"}

HasReports(payload) == payload \notin {None, EmptyDoc, Unset}

ExtOf(stm) ==
    [c \in ExtCols |->
       CASE c = "Revenue YoY%" ->
              IF HasReports(stm["income"]) THEN <<"value">> ELSE NA
         [] c = "Equity Ratio%" ->
              IF HasReports(stm["balance"]) THEN <<"value">> ELSE NA
         [] OTHER ->
              IF HasReports(stm["cashflow"]) /\ HasReports(stm["income"])
              THEN <<"value">> ELSE NA]

ExtDefaults == [c \in ExtCols |-> NA]

\* The fields main reads from the OVERVIEW document and from yfinance's
\* info dict; a field that is absent reads as None through .get.
OverviewKeys == {"PERatio", "PriceToSalesRatioTTM", "DividendYield"}
InfoKeys == {"trailingPE", "priceToSalesTrailing12Months", "dividendYield"}
OverviewDoc(pe, ps, dy) ==
    [k \in OverviewKeys |->
        CASE k = "PERatio" -> pe
          [] k = "PriceToSalesRatioTTM" -> ps
          [] OTHER -> dy]
InfoDict(pe, ps, dy) ==
    [k \in InfoKeys |->
        CASE k = "trailingPE" -> pe
          [] k = "priceToSalesTrailing12Months" -> ps
          [] OTHER -> dy]

\* The OVERVIEW documents and the answers of yfinance's info tried.
NoOverview == OverviewDoc(None, None, None)
OverviewDocs == {OverviewDoc(Num, Num, Num), OverviewDoc(Num, Num, StrNone)}
InfoRaises == [raised |-> TRUE, info |-> InfoDict(None, None, None)]
InfoAnswers ==
    {InfoRaises}
    \cup {[raised |-> FALSE, info |-> d] :
            d \in {InfoDict(Num, Num, Num),
                    InfoDict(StrNone, StrEmpty, Num),
                    InfoDict(StrNone, StrNone, StrNone)}}

\* _to_f: None for None, "" and "None", else the number.
ToF(x) == IF x \in {None, StrEmpty, StrNone} THEN None ELSE Num

\* P/E, P/S and the dividend yield: from OVERVIEW through _to_f; when
\* alpha_overview raised, from yfinance's info as it holds them (pe and ps
\* unconverted, float(yld) raising on a string after pe and ps are set);
\* None when reading info raised as well.
CoreFundamentals(key, ov, doc, ans, symbol, t) ==
    LET g == AlphaGetResult(key, ov, "OVERVIEW", symbol, t)
        d == IF g.out.value = EmptyDoc THEN NoOverview ELSE doc
        yld == ans.info["dividendYield"]
    IN  IF g.out.raised = "none"
        THEN [pe |-> ToF(d["PERatio"]),
              ps |-> ToF(d["PriceToSalesRatioTTM"]),
              dy |-> ToF(d["DividendYield"])]
        ELSE IF ans.raised
        THEN [pe |-> None, ps |-> None, dy |-> None]
        ELSE [pe |-> ans.info["trailingPE"],
              ps |-> ans.info["priceToSalesTrailing12Months"],
              dy |-> IF yld \in {None, StrNone, StrEmpty} THEN None ELSE Num]

Row(symbol, c, ext) ==
    [Ticker |-> symbol,
     core |-> [col \in CoreCols |->
                 CASE col = "Close" -> Fmt(c.close)
                   [] col = "USD/JPY" -> Fmt(c.usdjpy)
                   [] col = "Price (JPY)" ->
                        IF c.close # None /\ c.usdjpy # None
                        THEN <<"value">> ELSE NA
                   [] col = "P/E(TTM)" -> Fmt(c.pe)
                   [] col = "P/S(TTM)" -> Fmt(c.ps)
                   [] col = "Div. Yield%" -> Fmt(c.dy)
                   [] OTHER -> IF c.nxt # None THEN <<"value">> ELSE NA],
     ext |-> ext]

RECURSIVE MissingCore(_, _)
MissingCore(row, i) ==
    IF i > Len(CoreChecked) THEN <<>>
    ELSE (IF row.core[CoreChecked[i]] = NA
          THEN << <<row.Ticker, CoreChecked[i]>> >> ELSE <<>>)
         \o MissingCore(row, i + 1)

FetchInit ==
    /\ RunIdle
    /\ files = [p \in Paths |-> NoFile]
    /\ universe = Tickers
    /\ clock = 0
    /\ refresh_days = 1
    /\ weekendSkip = WeekendSkip
    /\ alphaKey \in BOOLEAN
    /\ tiingoKey \in BOOLEAN
    /\ workers = NoWorkers
    /\ alphaLog = <<>>
    /\ \/ pc = "client" /\ limit = 0
       \/ pc = "main" /\ limit \in {0, MaxFetchBudget}
    /\ remain = 0
    /\ toRefresh = <<>>
    /\ windows = <<>>
    /\ live = {}
    /\ call = NoApiCall
    /\ result = NoResult
    /\ rows = <<>>
    /\ missing = <<>>
    /\ cur = NoCur

\* What a client's call leaves alone.
CallFrame ==
    /\ pc = "client"
    /\ pc' = "called"
    /\ UNCHANGED <<files, clock, budgetVars, configVars, runVars, saveCall,
                   callsToday, ev, cacheVars, universe, windows, live,
                   tiingoKey, workers, alphaLog, rows, missing, cur>>

CallPriceTiingo(resp) ==
    /\ call' = [fn |-> "price_tiingo", resp |-> resp]
    /\ result' = PriceTiingo(tiingoKey, resp)
    /\ CallFrame

CallPriceAlphaGlobalQuote(resps) ==
    /\ call' = [fn |-> "price_alpha_global_quote", resps |-> resps]
    /\ result' = PriceAlphaGlobalQuote(alphaKey, resps)
    /\ CallFrame

CallPriceStooq(resp) ==
    /\ call' = [fn |-> "price_stooq", resp |-> resp]
    /\ result' = PriceStooq(resp)
    /\ CallFrame

CallFxUsdjpyAlpha(resps) ==
    /\ call' = [fn |-> "fx_usdjpy_alpha", resps |-> resps]
    /\ result' = FxUsdjpyAlpha(alphaKey, resps)
    /\ CallFrame

CallFxUsdjpyExrateHost(resp) ==
    /\ call' = [fn |-> "fx_usdjpy_exrate_host", resp |-> resp]
    /\ result' = FxUsdjpyExrateHost(resp)
    /\ CallFrame

CallAlphaGet(resp) ==
    /\ call' = [fn |-> "_alpha_get", resp |-> resp]
    /\ result' = AlphaGetResult(alphaKey, resp, "OVERVIEW", Tickers[1], clock)
    /\ CallFrame

CallFillMissingPrices(price, r1, r2, r3) ==
    /\ call' = [fn |-> "fill_missing_prices", price |-> price, r1 |-> r1,
                r2 |-> r2, r3 |-> r3]
    /\ result' = FillMissingPrices(price, tiingoKey, alphaKey, r1, r2, r3)
    /\ CallFrame

CallUsdJpyRate(r1, r2) ==
    /\ call' = [fn |-> "usd_jpy_rate", r1 |-> r1, r2 |-> r2]
    /\ result' = UsdJpyRate(alphaKey, r1, r2)
    /\ CallFrame

\* main up to the universe loop (a weekday).
MainStart ==
    /\ pc = "main"
    /\ ~ (weekendSkip /\ IsWeekend(Ordinal(clock)))
    /\ \E fx \in YfResps : cur' = [NoCur EXCEPT !.usdjpy = UsdJpyYfinance(fx)]
    /\ remain' = AlphaBudgetInit(limit)
    /\ toRefresh' = ToRefresh(universe, Ordinal(clock), limit)
    /\ idx' = 1
    /\ today' = Ordinal(clock)
    /\ alphaLog' = <<>>
    /\ pc' = IF Len(universe) = 0 THEN "outputs" ELSE "mprice"
    /\ UNCHANGED <<files, clock, limit, consumed, configVars, runs, kidx,
                   refresh, now, out, js, stmtReqs, saveCall, callsToday, ev,
                   cacheVars, universe, windows, live, tiingoKey, workers, call, result,
                   rows, missing>>

\* The price block of the ticker; an exception it lets through leaves main.
MainPrice ==
    /\ pc = "mprice"
    /\ \E r1 \in PlainResps, y1 \in YfResps, y2 \in YfResps :
          /\ call' = [fn |-> "main.price", r1 |-> r1, y1 |-> y1, y2 |-> y2]
          /\ result' = MainPriceBlock(tiingoKey, r1, y1, y2)
    /\ IF result'.out.raised # "none"
       THEN pc' = "aborted" /\ UNCHANGED cur
       ELSE pc' = "mcore" /\ cur' = [cur EXCEPT !.close = result'.out.value]
    /\ UNCHANGED <<files, clock, budgetVars, configVars, runVars, saveCall,
                   callsToday, ev, cacheVars, universe, windows, live,
                   tiingoKey, workers, alphaLog, rows, missing>>

\* What the core block can come to for a ticker: the fundamentals and the
\* OVERVIEW requests sent, over every answer of Alpha Vantage, every
\* document it returns and every answer of yfinance's info.
CoreOutcomes(key, symbol, t) ==
    UNION {With(AlphaGetResult(key, ov, "OVERVIEW", symbol, t), LAMBDA g :
             {[f |-> CoreFundamentals(key, ov, doc, ans, symbol, t),
               reqs |-> g.reqs] :
                 doc \in (IF g.out.raised = "none" /\ g.out.value # EmptyDoc
                          THEN OverviewDocs ELSE {NoOverview}),
                 ans \in (IF g.out.raised # "none" THEN InfoAnswers
                          ELSE {InfoRaises})}) : ov \in Resps}

\* Core fundamentals and the next event of the ticker; then
\* alpha_statements is entered.
MainCore ==
    /\ pc = "mcore"
    /\ \E o \in CoreOutcomes(alphaKey, Symbol, clock), ne \in YfResps :
          /\ cur' = [cur EXCEPT !.pe = o.f.pe, !.ps = o.f.ps, !.dy = o.f.dy,
                                !.nxt = NextEventYfinance(ne)]
          /\ alphaLog' = alphaLog \o [i \in 1..o.reqs |-> "call"]
    /\ refresh' = (Symbol \in Range(toRefresh))
    /\ now' = clock
    /\ out' = EmptyOut
    /\ kidx' = 1
    /\ pc' = "kind"
    /\ ev' = NoEvent
    /\ call' = NoApiCall
    /\ result' = NoResult
    /\ UNCHANGED <<files, clock, budgetVars, configVars, runs, today, idx,
                   toRefresh, js, saveCall, stmtReqs, callsToday, cacheVars,
                   universe, windows, live, tiingoKey, workers, rows, missing>>

\* alpha_statements has returned or raised: the row of the ticker and its
\* missing entries.
MainRow ==
    /\ \/ pc = "kind" /\ kidx > Len(Kinds)
       \/ pc = "except"
    /\ \E row \in {Row(Symbol, cur,
                        IF pc = "except" THEN ExtDefaults ELSE ExtOf(out))} :
          /\ rows' = Append(rows, row)
          /\ missing' = missing
                         \o (IF pc = "except"
                             THEN << <<Symbol, "Extended(all)">> >>
                             ELSE <<>>)
                         \o MissingCore(row, 1)
    /\ IF idx < Len(universe)
       THEN idx' = idx + 1 /\ pc' = "mprice"
       ELSE idx' = idx /\ pc' = "outputs"
    /\ cur' = [NoCur EXCEPT !.usdjpy = cur.usdjpy]
    /\ ev' = [ev EXCEPT !.op = IF pc = "except" THEN "missing" ELSE "row"]
    /\ UNCHANGED <<files, clock, budgetVars, configVars, runs, today, kidx,
                   toRefresh, refresh, now, out, js, saveCall, stmtReqs,
                   callsToday, cacheVars, universe, windows, live, tiingoKey,
                   workers, call, result, alphaLog>>

\* Time passes while main waits.  After the first tick, further ticks are
\* taken while the clock and the budget together stay below MaxFetchLoad.
MainTick ==
    /\ pc \in MainWaitPcs
    /\ clock < MaxFetchClock
    /\ clock = 0 \/ clock + limit < MaxFetchLoad
    /\ clock' = clock + 1
    /\ UNCHANGED <<files, budgetVars, configVars, auxVars, runVars, pc,
                   saveCall, callsToday, ev, cacheVars>>

\* The table and the missing summary are written.
MainOutputs ==
    /\ pc = "outputs"
    /\ pc' = "done"
    /\ UNCHANGED <<files, clock, budgetVars, configVars, runVars, saveCall,
                   callsToday, ev, cacheVars, auxVars>>

\* A client makes one call to an adapter or to a cascade.
ClientCall ==
    /\ pc = "client"
    /\ \/ \E resp \in PlainResps : CallPriceTiingo(resp)
       \/ \E resps \in RespSeqs : CallPriceAlphaGlobalQuote(resps)
       \/ \E resp \in PlainResps : CallPriceStooq(resp)
       \/ \E resps \in RespSeqs : CallFxUsdjpyAlpha(resps)
       \/ \E resp \in PlainResps : CallFxUsdjpyExrateHost(resp)
       \/ \E resp \in Resps : CallAlphaGet(resp)
       \/ \E price \in {None, Quote("yfinance")}, r1 \in PlainResps,
             r2 \in RespSeqs, r3 \in PlainResps :
             CallFillMissingPrices(price, r1, r2, r3)
       \/ \E r1 \in RespSeqs, r2 \in PlainResps : CallUsdJpyRate(r1, r2)

FetchNext ==
    \/ ClientCall
    \/ MainStart
    \/ MainPrice
    \/ MainCore
    \/ StmtKind
    \/ AlphaGet
    \/ SaveOpen
    \/ SaveDump
    \/ ConsumeSleep
    \/ MainRow
    \/ MainOutputs
    \/ MainTick

FetchSpec == FetchInit /\ [][FetchNext]_vars

(* ------------------------ Yahoo batched prices ------------------------ *)
YfTickers == { <<"A">>, <<"B", ".", "B">> }

YfSymbol(ticker) ==
    [i \in DOMAIN ticker |-> IF ticker[i] = "." THEN "-" ELSE ticker[i]]

YSyms == {YfSymbol(t) : t \in YfTickers}

TickerLists(n) == UNION {[1..k -> YfTickers] : k \in 0..n}

\* What yf.download answers to one request: it raises, or it returns a
\* frame with one column group per Yahoo symbol (the group absent, its
\* Close column without a value, or with closes), or a plain frame with the
\* columns of one ticker.
ColData == {"close", "empty", "absent"}
Frames ==
    {[kind |-> "raise"]}
    \cup {[kind |-> "multi", cols |-> c] : c \in [YSyms -> ColData]}
    \cup {[kind |-> "flat", close |-> c] : c \in ColData}

LastClose(y) == <<"close", y>>

YfDownloadPricesUnguarded(tickers, df) ==
    IF tickers = <<>>
    THEN [out |-> Return([t \in Range(tickers) |-> None]), reqs |-> 0]
    ELSE IF df.kind = "raise"
    THEN [out |-> Raise("Exception"), reqs |-> 1]
    ELSE IF df.kind = "multi"
    THEN [out |-> Return([t \in Range(tickers) |->
                            IF df.cols[YfSymbol(t)] = "close"
                            THEN LastClose(YfSymbol(t)) ELSE None]),
          reqs |-> 1]
    ELSE [out |-> Return([t \in Range(tickers) |->
                            IF t = tickers[1] /\ df.close = "close"
                            THEN LastClose(<<>>) ELSE None]),
          reqs |-> 1]
YfDownloadPrices(tickers, df) ==
    IF tickers = <<>>
    THEN [out |-> Return([t \in Range(tickers) |-> None]), reqs |-> 0]
    ELSE IF df.kind = "raise"
    THEN [out |-> Return([t \in Range(tickers) |-> None]), reqs |-> 1]
    ELSE IF df.kind = "multi"
    THEN [out |-> Return([t \in Range(tickers) |->
                            IF df.cols[YfSymbol(t)] = "close"
                            THEN LastClose(YfSymbol(t)) ELSE None]),
          reqs |-> 1]
    ELSE [out |-> Return([t \in Range(tickers) |->
                            IF t = tickers[1] /\ df.close = "close"
                            THEN LastClose(<<>>) ELSE None]),
          reqs |-> 1]

\* dict.update: the keys of b take b's values.
DictUpdate(a, b) ==
    [t \in DOMAIN a \cup DOMAIN b |-> IF t \in DOMAIN b THEN b[t] ELSE a[t]]

NumBatches(n, size) == (n + size - 1) \div size

\* The loop of yf_download_prices_batched from offset i on; dfs[j] answers
\* the request of the j-th batch.
RECURSIVE BatchesFrom(_, _, _, _, _)
BatchesFrom(i, all_tickers, size, dfs, acc) ==
    IF i >= Len(all_tickers) THEN acc
    ELSE With(YfDownloadPrices(SubSeq(all_tickers, i + 1,
                                      Min(i + size, Len(all_tickers))),
                               dfs[(i \div size) + 1]), LAMBDA res :
           With([prices |-> DictUpdate(acc.prices, res.out.value),
                 reqs |-> acc.reqs + res.reqs,
                 sleeps |-> acc.sleeps
                            + (IF i + size < Len(all_tickers) THEN 1 ELSE 0)],
                LAMBDA acc1 : BatchesFrom(i + size, all_tickers, size, dfs,
                                          acc1)))

YfDownloadPricesBatched(all_tickers, size, dfs) ==
    With(BatchesFrom(0, all_tickers, size, dfs,
                     [prices |-> [t \in {} |-> None], reqs |-> 0,
                      sleeps |-> 0]), LAMBDA acc :
      [out |-> Return(acc.prices), reqs |-> acc.reqs, sleeps |-> acc.sleeps])

BatchInit ==
    /\ RunIdle
    /\ AuxIdle
    /\ files = [p \in Paths |-> NoFile]
    /\ clock = 0
    /\ refresh_days = 1
    /\ weekendSkip = WeekendSkip
    /\ alphaKey = TRUE
    /\ limit = 0
    /\ remain = 0
    /\ toRefresh = <<>>
    /\ pc = "client"

CallYfDownloadPrices(tickers, df) ==
    /\ call' = [fn |-> "yf_download_prices", tickers |-> tickers, df |-> df]
    /\ result' = YfDownloadPrices(tickers, df)
    /\ CallFrame

CallYfDownloadPricesBatched(all_tickers, size, dfs) ==
    /\ call' = [fn |-> "yf_download_prices_batched",
                tickers |-> all_tickers, size |-> size, dfs |-> dfs]
    /\ result' = YfDownloadPricesBatched(all_tickers, size, dfs)
    /\ CallFrame

BatchNext ==
    \/ /\ pc = "client"
       /\ \E tickers \in TickerLists(MaxTickers), df \in Frames :
             CallYfDownloadPrices(tickers, df)
    \/ /\ pc = "client"
       /\ \E tickers \in TickerLists(MaxTickers), size \in 1..MaxBatchSize :
          \E dfs \in [1..NumBatches(Len(tickers), size) -> Frames] :
             CallYfDownloadPricesBatched(tickers, size, dfs)

BatchSpec == BatchInit /\ [][BatchNext]_vars

(* ------------ two workers in alpha_statements, one ledger ------------- *)
\* Two threads call alpha_statements(symbol, budget=b) with the same
\* AlphaBudget b, each for its own symbol, with a provider that answers
\* every call.  Nothing in alpha_statements or AlphaBudget takes a lock: a
\* step is one access to the shared ledger or to the cache, and consume's
\* read of _remain and its write are two steps.
WorkerIds == {1, 2}

\* A worker at the entry of alpha_statements: now is the clock it read there.
WorkerStart ==
    [pc |-> "kind", kidx |-> 1, now |-> 0, read |-> 0, js |-> None,
     out |-> EmptyOut]

WorkerSymbol(w) == Tickers[w]
WorkerKindOf(w) == Kinds[workers[w].kidx]

NextKind(wk) ==
    [wk EXCEPT !.kidx = @ + 1,
               !.pc = IF wk.kidx + 1 > Len(Kinds) THEN "returned" ELSE "kind"]

WorkerInit ==
    /\ RunIdle
    /\ files = [p \in Paths |-> NoFile]
    /\ clock = 0
    /\ refresh_days = 1
    /\ weekendSkip = WeekendSkip
    /\ alphaKey = TRUE
    /\ limit \in 0..MaxBudget
    /\ remain = AlphaBudgetInit(limit)
    /\ toRefresh = <<>>
    /\ universe = Tickers
    /\ windows = <<>>
    /\ live = {}
    /\ tiingoKey = TRUE
    /\ call = NoApiCall
    /\ result = NoResult
    /\ rows = <<>>
    /\ missing = <<>>
    /\ cur = NoCur
    /\ alphaLog = <<>>
    /\ workers = [w \in WorkerIds |-> WorkerStart]
    /\ pc = "workers"

\* What no step of a worker changes.
WorkerFrame ==
    UNCHANGED <<clock, limit, configVars, runs, today, pc, idx, kidx, toRefresh,
                refresh, now, out, js, saveCall, callsToday, ev, cacheVars,
                universe, windows, live, tiingoKey, call, result, rows,
                missing, cur, alphaLog>>

\* The cache is read, need is decided and the ledger is asked.
WorkerStmtKind(w) ==
    /\ pc = "workers"
    /\ workers[w].pc = "kind"
    /\ \E cached \in {LoadStmtCache(files, WorkerSymbol(w), WorkerKindOf(w))} :
       \E age \in (IF cached = JSONDecodeError THEN {NoAge}
                   ELSE Ages(cached, workers[w].now)) :
          workers' = [workers EXCEPT ![w] =
             IF cached = JSONDecodeError
             THEN [@ EXCEPT !.pc = "raised"]
             ELSE IF Need(cached, FALSE, age, refresh_days)
             THEN IF Remaining(remain) <= 0
                  THEN NextKind([@ EXCEPT
                                   !.out[WorkerKindOf(w)] = Fallback(cached)])
                  ELSE [@ EXCEPT !.pc = "fetch"]
             ELSE NextKind([@ EXCEPT !.out[WorkerKindOf(w)] = cached.payload])]
    /\ UNCHANGED <<files, budgetVars, stmtReqs>>
    /\ WorkerFrame

WorkerAlphaGet(w) ==
    /\ pc = "workers"
    /\ workers[w].pc = "fetch"
    /\ stmtReqs' = stmtReqs + 1
    /\ workers' = [workers EXCEPT ![w] =
          [@ EXCEPT !.pc = "save",
                    !.js = ProviderDoc(Functions[WorkerKindOf(w)],
                                       WorkerSymbol(w), clock)]]
    /\ UNCHANGED <<files, budgetVars>>
    /\ WorkerFrame

\* _save_stmt_cache: open(p, "w") truncates the file ...
WorkerSaveOpen(w) ==
    /\ pc = "workers"
    /\ workers[w].pc = "save"
    /\ files' = OpenForWrite(files, WorkerSymbol(w), WorkerKindOf(w))
    /\ workers' = [workers EXCEPT ![w] = [@ EXCEPT !.pc = "dump"]]
    /\ UNCHANGED <<budgetVars, stmtReqs>>
    /\ WorkerFrame

\* ... and json.dump writes the entry, stamped with the clock read then.
WorkerSaveDump(w) ==
    /\ pc = "workers"
    /\ workers[w].pc = "dump"
    /\ files' = DumpEntry(files, WorkerSymbol(w), WorkerKindOf(w),
                          workers[w].js, clock)
    /\ workers' = [workers EXCEPT ![w] = [@ EXCEPT !.pc = "consume"]]
    /\ UNCHANGED <<budgetVars, stmtReqs>>
    /\ WorkerFrame

\* consume(1): self._remain is read ...
WorkerConsumeRead(w) ==
    /\ pc = "workers"
    /\ workers[w].pc = "consume"
    /\ workers' = [workers EXCEPT ![w] =
          [@ EXCEPT !.pc = "store", !.read = Remaining(remain)]]
    /\ UNCHANGED <<files, budgetVars, stmtReqs>>
    /\ WorkerFrame

\* ... and max(0, read - 1) is written back.
WorkerConsumeStore(w) ==
    /\ pc = "workers"
    /\ workers[w].pc = "store"
    /\ remain' = Consume(workers[w].read, 1)
    /\ consumed' = Append(consumed, 1)
    /\ workers' = [workers EXCEPT ![w] =
          [@ EXCEPT !.pc = "sleep",
                    !.out[WorkerKindOf(w)] = workers[w].js]]
    /\ UNCHANGED <<files, limit, stmtReqs>>
    /\ UNCHANGED <<clock, configVars, runs, today, pc, idx, kidx, toRefresh, refresh,
                   now, out, js, saveCall, callsToday, ev, cacheVars,
                   universe, windows, live, tiingoKey, call, result, rows,
                   missing, cur, alphaLog>>

WorkerSleep(w) ==
    /\ pc = "workers"
    /\ workers[w].pc = "sleep"
    /\ workers' = [workers EXCEPT ![w] = NextKind(@)]
    /\ UNCHANGED <<files, budgetVars, stmtReqs>>
    /\ WorkerFrame

\* Time passes while the workers wait for the provider or sleep.
WorkerTick ==
    /\ pc = "workers"
    /\ clock < MaxWorkerClock
    /\ \E w \in WorkerIds : workers[w].pc \notin {"returned", "raised"}
    /\ clock' = clock + 1
    /\ UNCHANGED <<files, budgetVars, configVars, runVars, pc, saveCall,
                   callsToday, ev, cacheVars, auxVars>>

WorkerNext ==
    \/ \E w \in WorkerIds : WorkerStmtKind(w)
    \/ \E w \in WorkerIds : WorkerAlphaGet(w)
    \/ \E w \in WorkerIds : WorkerSaveOpen(w)
    \/ \E w \in WorkerIds : WorkerSaveDump(w)
    \/ \E w \in WorkerIds : WorkerConsumeRead(w)
    \/ \E w \in WorkerIds : WorkerConsumeStore(w)
    \/ \E w \in WorkerIds : WorkerSleep(w)
    \/ WorkerTick

WorkerSpec == WorkerInit /\ [][WorkerNext]_vars

(* ------------------ the rotation of main on its own ------------------- *)
RotationInit ==
    /\ RunIdle
    /\ files = [p \in Paths |-> NoFile]
    /\ universe \in {UniverseOf(n) : n \in 0..MaxN}
    /\ limit \in -1..MaxDailyBudget
    /\ clock \in {day * TicksPerDay : day \in 0..MaxStartDay}
    /\ remain = 0
    /\ refresh_days = 1
    /\ weekendSkip \in BOOLEAN
    /\ alphaKey = TRUE
    /\ toRefresh = <<>>
    /\ windows = <<>>
    /\ live = {}
    /\ tiingoKey = TRUE
    /\ workers = NoWorkers
    /\ alphaLog = <<>>
    /\ call = NoApiCall
    /\ result = NoResult
    /\ rows = <<>>
    /\ missing = <<>>
    /\ cur = NoCur
    /\ pc = "rotation"

\* main is started on one calendar day, then on the next: lines 11-16, the
\* return on a weekend, and lines 25-36, the window of the day.
RotateDay ==
    /\ pc = "rotation"
    /\ runs < MaxDays
    /\ runs' = runs + 1
    /\ today' = Ordinal(clock)
    /\ IF weekendSkip /\ IsWeekend(Ordinal(clock))
       THEN UNCHANGED <<toRefresh, windows>>
       ELSE /\ toRefresh' = ToRefresh(universe, Ordinal(clock), limit)
            /\ windows' = Append(windows, [ord |-> Ordinal(clock),
                                           tpd |-> Tpd(limit),
                                           to_refresh |-> toRefresh'])
    /\ clock' = clock + TicksPerDay
    /\ UNCHANGED <<files, limit, remain, consumed, configVars, idx, kidx,
                   refresh, now, out, js, stmtReqs, pc, saveCall, callsToday,
                   ev, cacheVars, universe, live,
                   tiingoKey, workers, alphaLog, call, result, rows, missing, cur>>

RotationNext == RotateDay

RotationSpec == RotationInit /\ [][RotationNext]_vars


(* ------------------------------ claims -------------------------------- *)

(* C1: for a budget created with daily_limit L, after any sequence of      *)
(* consume(n) calls whose amounts sum to C, remaining() is max(0, L - C),  *)
(* and remaining() is never negative in any reachable state.               *)
C1_BudgetConservation ==
    pc = "budget" =>
        /\ Remaining(remain) = Max(0, limit - SumSeq(consumed))
        /\ Remaining(remain) >= 0


(* C2: within one run the number of statement requests alpha_statements    *)
(* sends to the provider never exceeds the daily_limit of the budget.      *)
C2_RequestsWithinLimit ==
    pc \notin {"budget", "cache", "cdump"} => stmtReqs <= limit

(* C3: across the runs of main on one calendar day the calls made to the   *)
(* budgeted provider never exceed ALPHA_DAILY_BUDGET.  callsToday counts   *)
(* only the statement calls of the day for which a run's ledger consumed   *)
(* budget, the least the calls made can be.                                *)
C3_DailyCallsWithinBudget ==
    pc \notin {"budget", "cache", "cdump"} => callsToday <= limit

(* The refresh decision as the specification words it, on the age in whole *)
(* days that the step has computed for the entry.                          *)
IsStale(age, maxAgeDays) == age >= maxAgeDays
NeedRefresh(entry) ==
    refresh \/ entry = NoEntry \/ IsStale(ev'.age, refresh_days)

\* A step of alpha_statements' loop, not of the clock: one (symbol, kind) is
\* loaded and decided.
KindStep ==
    /\ pc = "kind"
    /\ kidx <= Len(Kinds)
    /\ clock' = clock
    /\ vars' # vars

(* C4: when a (symbol, kind) needs a refresh and remaining() is 0, no      *)
(* provider call is made, the budget and the cache are left unchanged, no  *)
(* exception is raised, and the value returned for the kind is the cached  *)
(* payload if an entry exists (stale or not) and null otherwise.           *)
C4_ExhaustedFallsBack ==
    [][KindStep =>
         LET entry == LoadStmtCache(files, Symbol, Kind)
         IN  (/\ entry # JSONDecodeError
              /\ NeedRefresh(entry)
              /\ Remaining(remain) = 0)
             => /\ stmtReqs' = stmtReqs
                /\ remain' = remain
                /\ files' = files
                /\ pc' = "kind"
                /\ kidx' = kidx + 1
                /\ out'[Kind] = (IF entry # NoEntry THEN entry.payload ELSE None)]_vars

(* A forced refresh met an exhausted budget and returned the cached entry. *)
C4_Witness ==
    /\ pc = "kind"
    /\ ev.op = "fallback"
    /\ ev.cached # NoEntry
    /\ Remaining(remain) = 0
    /\ out[Kinds[kidx - 1]] = ev.cached.payload

(* C5: for each (symbol, kind) a live fetch is attempted if and only if    *)
(* budget remains and (refresh is set, or no entry exists, or the entry is *)
(* stale).                                                                 *)
C5_FetchIffNeededAndBudget ==
    [][KindStep =>
         LET entry == LoadStmtCache(files, Symbol, Kind)
         IN  entry # JSONDecodeError
             => ((pc' = "fetch") <=> (Remaining(remain) > 0 /\ NeedRefresh(entry)))]_vars

(* A stale entry triggers a fetch attempt although refresh is false.       *)
C5_Witness ==
    /\ pc = "fetch"
    /\ ev.op = "need"
    /\ ~refresh
    /\ ev.cached # NoEntry
    /\ IsStale(ev.age, refresh_days)

(* C6: the staleness test has no off-by-one: with refresh false, an entry  *)
(* whose age in whole days equals refresh_days is treated as stale, one    *)
(* whose age is refresh_days - 1 days or less is served from the cache.    *)
C6_StalenessBoundary ==
    (/\ pc \in {"kind", "fetch"}
     /\ ev.op \in {"cached", "need", "fallback"}
     /\ ev.cached # NoEntry
     /\ ~refresh)
    => /\ ev.age \in AgesInDays(FromIsoFormat(ev.cached.ts), now)
       /\ ev.age = refresh_days => ev.op # "cached"
       /\ ev.age <= refresh_days - 1 => ev.op = "cached"

(* An entry aged exactly refresh_days whole days was found stale.          *)
C6_Witness ==
    /\ pc = "fetch"
    /\ ev.op = "need"
    /\ ~refresh
    /\ ev.cached # NoEntry
    /\ ev.age = refresh_days

(* C7: _save_stmt_cache(symbol, kind, payload) followed immediately by     *)
(* _load_stmt_cache(symbol, kind) returns an entry with the payload just   *)
(* written and a timestamp not before the time the save was called.        *)
C7_SaveThenLoad ==
    ev.op = "loadAfterSave"
    => /\ ev.cached.tag = "entry"
       /\ ev.cached.payload = saveCall.payload
       /\ FromIsoFormat(ev.cached.ts) >= saveCall.t0

(* A load right after a save during which the clock advanced, over an      *)
(* entry that held another payload.                                        *)
C7_Witness ==
    /\ ev.op = "loadAfterSave"
    /\ ops = 2
    /\ ev.cached.tag = "entry"
    /\ FromIsoFormat(ev.cached.ts) > saveCall.t0
    /\ saveCall.t0 % TicksPerDay # 0

(* C8: cache keying is collision-free: a put for one (symbol, kind) never  *)
(* overwrites the entry of another pair, so every pair still loads the     *)
(* payload last saved for it.                                              *)
C8_NoOverwrite ==
    pc = "cache"
    => \A pr \in Pairs :
          written[pr] # None
          => LET e == LoadStmtCache(files, pr[1], pr[2])
             IN  e.tag = "entry" /\ e.payload = written[pr]

(* C9: after an interruption during _save_stmt_cache a later load sees a   *)
(* complete entry or absence, never a partially written entry.             *)
C9_AtomicWrite ==
    pc = "idle"
    => \A i \in DOMAIN Tickers, k \in KindSet :
          LoadStmtCache(files, Tickers[i], k) # JSONDecodeError

(* C10: a malformed persisted entry is treated like an absent one: it      *)
(* forces a fetch attempt when budget remains, yields a null payload when  *)
(* the budget is exhausted, and never makes alpha_statements raise.        *)
C10_MalformedTreatedAsAbsent ==
    [][KindStep =>
         (LoadStmtCache(files, Symbol, Kind) = JSONDecodeError
          => IF Remaining(remain) > 0
             THEN pc' = "fetch"
             ELSE pc' = "kind" /\ kidx' = kidx + 1 /\ out'[Kind] = None)]_vars

(* The rotation as the specification words it.                             *)
FloorDiv(a, b) ==
    CHOOSE f \in (0 - a * a - 1)..(a * a + 1) : b * f <= a /\ a < b * (f + 1)
Quota(daily_budget) == Max(1, FloorDiv(daily_budget, 3))

\* The first of the consecutive days on which main has been started.
FirstDay == Ordinal(clock) - runs

\* How often the windows computed on the given days hold the symbol.
Eligible(s, days) ==
    Cardinality({di \in (DOMAIN windows) \X (1..Len(universe)) :
                    /\ windows[di[1]].ord \in days
                    /\ di[2] <= Len(windows[di[1]].to_refresh)
                    /\ windows[di[1]].to_refresh[di[2]] = s})

(* C11: for a universe of N distinct symbols and a quota Q that divides N, *)
(* the windows main computes on any N/Q consecutive calendar days are      *)
(* pairwise disjoint and their union is the whole universe: every symbol   *)
(* is eligible exactly once before the rotation repeats.                   *)
C11_RotationTilesUniverse ==
    pc = "rotation" =>
        LET n == Len(universe)
            q == Quota(limit)
        IN  n % q = 0 =>
              \A j \in 0..runs :
                 j + (n \div q) <= runs =>
                   \A s \in Range(universe) :
                      Eligible(s, (FirstDay + j)..(FirstDay + j + (n \div q) - 1)) = 1

(* C12: for every date ordinal, universe size N >= 0 and daily budget the  *)
(* rotation of main is the specified one: Q = max(1, floor(budget / 3)),   *)
(* start = (ordinal * Q) mod max(1, N), eligible = tickers[(start + i) mod *)
(* N] for i in [0, min(Q, N)); N = 5 and budget 6 give symbols 0, 1 for    *)
(* ordinal 10 and symbols 2, 3 for ordinal 11.                             *)
C12_RotationMatchesFormula ==
    pc = "rotation" =>
        \A d \in DOMAIN windows :
           LET w == windows[d]
               n == Len(universe)
               q == Quota(limit)
               start == (w.ord * q) % Max(1, n)
           IN  /\ w.tpd = q
               /\ Len(w.to_refresh) = Min(q, n)
               /\ \A i \in 0..(Min(q, n) - 1) :
                     w.to_refresh[i + 1] = universe[((start + i) % n) + 1]
               /\ (n = 5 /\ limit = 6 /\ w.ord = 10)
                    => w.to_refresh = <<universe[1], universe[2]>>
               /\ (n = 5 /\ limit = 6 /\ w.ord = 11)
                    => w.to_refresh = <<universe[3], universe[4]>>

(* The example of the claim: five symbols, a budget of 6, ordinals 10, 11. *)
C12_Witness ==
    /\ pc = "rotation"
    /\ Len(universe) = 5
    /\ limit = 6
    /\ Len(windows) = 2
    /\ windows[1].ord = 10
    /\ windows[1].to_refresh = << <<"A">>, <<"B">> >>
    /\ windows[2].ord = 11
    /\ windows[2].to_refresh = << <<"C">>, <<"D">> >>

(* C13: with a fixed universe and a fixed daily budget, a provider that    *)
(* answers every call, and main run once per consecutive calendar day,     *)
(* every symbol of the universe eventually gets a live refresh of its      *)
(* statements, for every value of refresh_days.                            *)
C13_EverySymbolEventuallyRefreshed ==
    \A i \in 1..MaxSchedN :
       <>(i > Len(universe) \/ \E k \in KindSet : <<universe[i], k>> \in live)

(* C14: in one run of main with a provider that answers every call, every  *)
(* symbol of today's rotation window has all three statement kinds fetched *)
(* live in that run, whatever the age of its entries and the cache state   *)
(* of the other symbols.                                                   *)
C14_WindowFetchedLive ==
    pc = "ran" =>
        \A s \in Range(toRefresh), k \in KindSet : <<s, k>> \in live

(* ---------------- cascades, the run of main, the adapters ------------- *)
Failed(o) == o.raised # "none" \/ o.value = None

(* C15: when every provider of a price or FX cascade (fill_missing_prices, *)
(* usd_jpy_rate, the price block of main) yields None, RateLimit or        *)
(* another failure, the cascade returns a null value without raising and   *)
(* has invoked each of its providers exactly once, in priority order.      *)
C15_ExhaustedCascadeReturnsNull ==
    /\ (/\ call.fn = "fill_missing_prices"
        /\ call.price = None
        /\ Failed(PriceTiingo(tiingoKey, call.r1).out)
        /\ Failed(PriceAlphaGlobalQuote(alphaKey, call.r2).out)
        /\ Failed(PriceStooq(call.r3).out))
       => /\ result.out = Return(None)
          /\ result.invoked = <<"price_tiingo", "price_alpha_global_quote",
                                "price_stooq">>
    /\ (/\ call.fn = "usd_jpy_rate"
        /\ Failed(FxUsdjpyAlpha(alphaKey, call.r1).out)
        /\ Failed(FxUsdjpyExrateHost(call.r2).out))
       => /\ result.out = Return(None)
          /\ result.invoked = <<"fx_usdjpy_alpha", "fx_usdjpy_exrate_host">>
    /\ (/\ call.fn = "main.price"
        /\ Failed(PriceTiingo(tiingoKey, call.r1).out)
        /\ call.y1 = "empty"
        /\ call.y2 = "empty")
       => /\ result.out = Return(None)
          /\ result.invoked = <<"price_tiingo", "price_yfinance">>

(* C16: whatever the providers answer on any ticker, main is not aborted:  *)
(* it reaches the end of the universe loop and has then emitted exactly    *)
(* one row for every ticker of the universe.                               *)
C16_RunEmitsRowPerTicker ==
    /\ pc # "aborted"
    /\ pc \in {"outputs", "done"}
       => /\ Len(rows) = Len(universe)
          /\ \A i \in 1..Len(universe) : rows[i].Ticker = universe[i]

\* An entry of the missing list covers a field of a ticker: it names the
\* field, or it is the ticker's "Extended(all)" entry and the field is an
\* extended column, or the field is derived from a field it names.
Covers(entry, tkr, col) ==
    /\ entry[1] = tkr
    /\ \/ entry[2] = col
       \/ entry[2] = "Extended(all)" /\ col \in ExtCols
       \/ col = "Price (JPY)" /\ entry[2] \in {"Close", "USD/JPY"}

Listed(tkr, col) == \E j \in 1..Len(missing) : Covers(missing[j], tkr, col)

(* C17: at the end of a run, every field of every row whose value is N/A   *)
(* (statement data that is null because the budget was exhausted and no    *)
(* cache entry existed included) has an entry in the missing list for that *)
(* ticker covering that field.                                             *)
C17_UnresolvedFieldsListed ==
    pc = "done" =>
        \A i \in 1..Len(rows) :
           /\ \A col \in DOMAIN rows[i].core :
                 rows[i].core[col] = NA => Listed(rows[i].Ticker, col)
           /\ \A col \in ExtCols :
                 rows[i].ext[col] = NA => Listed(rows[i].Ticker, col)

Adapters == {"price_tiingo", "price_alpha_global_quote", "price_stooq",
             "fx_usdjpy_alpha", "fx_usdjpy_exrate_host", "_alpha_get"}
AlphaAdapters == {"price_alpha_global_quote", "fx_usdjpy_alpha", "_alpha_get"}
Retrying == {"price_alpha_global_quote", "fx_usdjpy_alpha"}

\* The call received a throttling response: HTTP 429, or for Alpha Vantage
\* also a document carrying a Note.
Throttled(c) ==
    IF c.fn \in Retrying THEN c.resps[1] \in {"429", "note"}
    ELSE IF c.fn = "_alpha_get" THEN c.resp \in {"429", "note"}
    ELSE c.resp = "429"

\* The outcome of the adapter, its credential present, when the provider
\* answers resp to every request.
OutcomeOn(fn, resp) ==
    CASE fn = "price_tiingo" -> PriceTiingo(TRUE, resp).out
      [] fn = "price_alpha_global_quote" ->
           PriceAlphaGlobalQuote(TRUE, [i \in 1..Retries |-> resp]).out
      [] fn = "price_stooq" -> PriceStooq(resp).out
      [] fn = "fx_usdjpy_alpha" ->
           FxUsdjpyAlpha(TRUE, [i \in 1..Retries |-> resp]).out
      [] fn = "fx_usdjpy_exrate_host" -> FxUsdjpyExrateHost(resp).out
      [] OTHER -> AlphaGetResult(TRUE, resp, "OVERVIEW", Tickers[1], 0).out

HasKey(fn) ==
    IF fn = "price_tiingo" THEN tiingoKey
    ELSE IF fn \in AlphaAdapters THEN alphaKey
    ELSE TRUE

(* C18: for every adapter, a throttling response of the provider produces  *)
(* the RateLimit outcome, which differs from the adapter's outcome for no  *)
(* data and from its outcome for any other failure.                        *)
C18_ThrottlingDistinguished ==
    (call.fn \in Adapters /\ HasKey(call.fn) /\ Throttled(call))
    => /\ result.out = Raise("RateLimit")
       /\ \A other \in {"empty", "error", "timeout"} :
             OutcomeOn(call.fn, other) # result.out

(* C19: when the fetch of a statement kind of a symbol is rate-limited by  *)
(* the provider and a cache entry for the pair exists, alpha_statements    *)
(* goes on with the cached payload as the value of that kind instead of    *)
(* failing the whole symbol.                                               *)
C19_RateLimitedFallsBackToCache ==
    [][(/\ pc = "fetch"
        /\ alphaKey
        /\ ev.cached # NoEntry
        /\ ev'.op = "RateLimit")
       => /\ pc' = "kind"
          /\ out'[Kind] = ev.cached.payload]_vars

AllThrottled == [i \in 1..Retries |-> "429"]

\* The positions of a run of main that was not aborted.
MainPcs == {"mprice", "mcore", "kind", "fetch", "save", "dump", "consume",
            "except", "outputs", "done"}

(* C20: a missing credential behaves like a RateLimited outcome: every     *)
(* adapter that needs a key raises RateLimit without sending a request     *)
(* when its key is absent; fill_missing_prices and usd_jpy_rate then go on *)
(* to the next provider and return what they return when the provider      *)
(* throttles, without raising; the price block of main goes on to          *)
(* price_yfinance; and main, when the Alpha Vantage key is absent and the  *)
(* budget allows a statement call, records the ticker's extended columns   *)
(* as missing and still emits the ticker's row.                            *)
C20_MissingCredentialIsRateLimited ==
    /\ (call.fn \in Adapters /\ ~HasKey(call.fn))
       => result.out = Raise("RateLimit") /\ result.reqs = 0
    /\ (call.fn = "fill_missing_prices" /\ call.price = None /\ ~tiingoKey)
       => /\ result.out.raised = "none"
          /\ Len(result.invoked) >= 2
          /\ result.invoked[2] = "price_alpha_global_quote"
          /\ \E c \in {FillMissingPrices(None, TRUE, alphaKey, "429", call.r2,
                                         call.r3)} :
                /\ result.out = c.out
                /\ result.invoked = c.invoked
                /\ result.reqs = c.reqs - 1
    /\ (call.fn = "fill_missing_prices" /\ call.price = None /\ ~alphaKey
          /\ Failed(PriceTiingo(tiingoKey, call.r1).out))
       => /\ result.out = PriceStooq(call.r3).out
          /\ result.invoked = <<"price_tiingo", "price_alpha_global_quote",
                                "price_stooq">>
          /\ \E c \in {FillMissingPrices(None, tiingoKey, TRUE, call.r1,
                                         AllThrottled, call.r3)} :
                /\ result.out = c.out
                /\ result.invoked = c.invoked
                /\ result.reqs = c.reqs - 1
    /\ (call.fn = "usd_jpy_rate" /\ ~alphaKey)
       => /\ result.out = FxUsdjpyExrateHost(call.r2).out
          /\ result.invoked = <<"fx_usdjpy_alpha", "fx_usdjpy_exrate_host">>
          /\ \E c \in {UsdJpyRate(TRUE, AllThrottled, call.r2)} :
                /\ result.out = c.out
                /\ result.invoked = c.invoked
                /\ result.reqs = c.reqs - 1
    /\ (call.fn = "main.price" /\ ~tiingoKey)
       => /\ Len(result.invoked) >= 2
          /\ result.invoked[1] = "price_tiingo"
          /\ result.invoked[2] = "price_yfinance"
    /\ (~alphaKey /\ limit > 0 /\ pc \in MainPcs)
       => /\ Len(rows) = (IF pc \in {"outputs", "done"} THEN idx ELSE idx - 1)
          /\ \A i \in 1..Len(rows) :
                /\ rows[i].Ticker = universe[i]
                /\ rows[i].ext = ExtDefaults
                /\ \E j \in 1..Len(missing) :
                      missing[j] = <<universe[i], "Extended(all)">>

C20_Witness ==
    /\ call.fn = "fill_missing_prices"
    /\ call.price = None
    /\ ~tiingoKey
    /\ ~alphaKey
    /\ result.invoked = <<"price_tiingo", "price_alpha_global_quote",
                          "price_stooq">>
    /\ result.out = Return(Quote("stooq"))
    /\ result.reqs = 1

(* ------------- retries, first success, failed fetches ------------------ *)
TransientResps == {"error", "timeout"}

(* C21: in price_alpha_global_quote and fx_usdjpy_alpha every transient    *)
(* error (network error, timeout, 5xx) is retried after a backoff, a call  *)
(* sends at most `retries` requests, and when every attempt fails with a   *)
(* transient error the adapter returns None instead of raising.            *)
C21_TransientErrorsRetried ==
    (call.fn \in Retrying /\ alphaKey)
    => /\ result.reqs <= Retries
       /\ result.sleeps >= result.reqs - 1
       /\ (\A i \in 1..Retries : call.resps[i] \in TransientResps)
          => /\ result.out = Return(None)
             /\ result.reqs = Retries

(* C23: fill_missing_prices stops at the first success: a symbol whose     *)
(* input price is not null causes no provider call and keeps its input     *)
(* value, and once a provider has returned a price no provider of lower    *)
(* priority is called for the symbol.                                      *)
C23_CascadeStopsAtFirstSuccess ==
    call.fn = "fill_missing_prices"
    => /\ call.price # None
          => /\ result.out = Return(call.price)
             /\ result.invoked = <<>>
             /\ result.reqs = 0
       /\ call.price = None
          => \E t \in {PriceTiingo(tiingoKey, call.r1)} :
             \E a \in {PriceAlphaGlobalQuote(alphaKey, call.r2)} :
                /\ ~Failed(t.out)
                   => /\ result.out = t.out
                      /\ result.invoked = <<"price_tiingo">>
                      /\ result.reqs = t.reqs
                /\ (Failed(t.out) /\ ~Failed(a.out))
                   => /\ result.out = a.out
                      /\ result.invoked = <<"price_tiingo",
                                            "price_alpha_global_quote">>
                      /\ result.reqs = t.reqs + a.reqs

C23_Witness ==
    /\ call.fn = "fill_missing_prices"
    /\ call.price = None
    /\ call.r1 = "empty"
    /\ tiingoKey
    /\ alphaKey
    /\ result.out = Return(Quote("alpha"))
    /\ result.invoked = <<"price_tiingo", "price_alpha_global_quote">>
    /\ result.reqs = 3

(* C27: when _alpha_get raises for a (symbol, kind), whatever it raises    *)
(* (RateLimit, an exception of requests.get, HTTPError, or the ValueError  *)
(* of r.json()), the cache entry of the pair keeps the payload and the     *)
(* timestamp it had before the call and the ledger's remaining count is    *)
(* what it was before the call.                                            *)
C27_FailedFetchLeavesStateUntouched ==
    (pc = "except" /\ ev.op \in Failures)
    => /\ LoadStmtCache(files, Symbol, Kind) = ev.cached
       /\ remain = ev.remainPre

(* The request was sent and answered, and r.json() raised: the entry that  *)
(* was there is there, and the ledger, decremented by earlier fetches of   *)
(* the run, is as it was.                                                  *)
C27_Witness ==
    /\ pc = "except"
    /\ ev.op = "ValueError"
    /\ alphaKey
    /\ ev.cached # NoEntry
    /\ remain > 0
    /\ remain < limit

\* The symbol has no close in the frame.
MissingFrom(df, t) ==
    \/ df.kind = "raise"
    \/ df.kind = "multi" /\ df.cols[YfSymbol(t)] # "close"
    \/ df.kind = "flat" /\ df.close # "close"

\* The batches of the call that hold the ticker.
BatchesOf(c, t) ==
    {((i - 1) \div c.size) + 1 : i \in {j \in 1..Len(c.tickers) :
                                          c.tickers[j] = t}}

(* C22: for any list of tickers and any answer of the provider (a batch    *)
(* that fails as a whole included), yf_download_prices and                 *)
(* yf_download_prices_batched return without raising a mapping whose keys  *)
(* are exactly the requested tickers, and a symbol missing from the        *)
(* provider's answer maps to None whatever the answer holds for the other  *)
(* symbols.                                                                *)
C22_BatchedPricesNeverFail ==
    /\ call.fn = "yf_download_prices"
       => /\ result.out.raised = "none"
          /\ DOMAIN result.out.value = Range(call.tickers)
          /\ \A t \in Range(call.tickers) :
                /\ MissingFrom(call.df, t) => result.out.value[t] = None
                /\ call.df.kind = "multi"
                   => (result.out.value[t] = None <=> MissingFrom(call.df, t))
    /\ call.fn = "yf_download_prices_batched"
       => /\ result.out.raised = "none"
          /\ DOMAIN result.out.value = Range(call.tickers)
          /\ \A t \in Range(call.tickers) :
                (\A b \in BatchesOf(call, t) : MissingFrom(call.dfs[b], t))
                => result.out.value[t] = None

C22_Witness ==
    /\ call.fn = "yf_download_prices_batched"
    /\ call.tickers = << <<"A">>, <<"B", ".", "B">>, <<"A">> >>
    /\ call.size = 2
    /\ call.dfs[1].kind = "multi"
    /\ call.dfs[1].cols[<<"A">>] = "absent"
    /\ call.dfs[1].cols[<<"B", "-", "B">>] = "close"
    /\ call.dfs[2].kind = "raise"
    /\ result.out.value[<<"A">>] = None
    /\ result.out.value[<<"B", ".", "B">>] = LastClose(<<"B", "-", "B">>)
    /\ result.sleeps = 1

(* C26: an entry stored with a null payload is not an absent entry: while  *)
(* it is not stale and refresh is false, alpha_statements returns its null *)
(* payload from the cache without a provider call and without consuming    *)
(* budget, whereas an absent entry leads to a fetch attempt whenever       *)
(* budget remains.                                                         *)
C26_NullPayloadIsPresent ==
    [][(pc = "kind" /\ kidx <= Len(Kinds) /\ clock' = clock)
       => \E cached \in {LoadStmtCache(files, Symbol, Kind)} :
             /\ (/\ cached.tag = "entry"
                 /\ cached.payload = None
                 /\ ~refresh
                 /\ ~IsStale(ev'.age, refresh_days))
                => /\ pc' = "kind"
                   /\ kidx' = kidx + 1
                   /\ out' = [out EXCEPT ![Kind] = None]
                   /\ stmtReqs' = stmtReqs
                   /\ remain' = remain
                   /\ files' = files
             /\ (cached = NoEntry /\ remain > 0)
                => /\ pc' = "fetch"
                   /\ out' = out]_vars

C26_Witness ==
    /\ pc = "kind"
    /\ ev.op = "cached"
    /\ ev.cached.tag = "entry"
    /\ ev.cached.payload = None
    /\ out[Kinds[kidx - 1]] = None
    /\ remain > 0

(* C24: within a run, after every live call to Alpha Vantage, successful   *)
(* or not, the pacing interval elapses before the next call to it is       *)
(* issued.                                                                 *)
C24_CallsPaced ==
    \A i \in 1..(Len(alphaLog) - 1) :
       alphaLog[i] = "call" => alphaLog[i + 1] = "sleep"

(* C25: when two workers concurrently execute the check-remaining, fetch,  *)
(* consume(1) sequence of alpha_statements against the same AlphaBudget,   *)
(* the live calls issued never exceed daily_limit.                         *)
C25_ConcurrentCallsWithinLimit ==
    pc = "workers" => stmtReqs <= limit

=============================================================================
